---------------------------- MODULE Spec2Model ----------------------------
(* A model of AirtablePy: the identifier validator, the record codec,    *)
(* the URL builder, the formula builder and the AirtableAPI operations    *)
(* (get, push, update, replace) with the HTTP requests they issue.        *)
(*                                                                        *)
(* Python values are tagged records [type |-> <type name>, val |-> ...];  *)
(* a str is a sequence of one-character strings, a list a sequence of     *)
(* values, a dict a function from keys to values.  A call either returns  *)
(* a value or raises an exception.                                        *)
EXTENDS Integers, Sequences, FiniteSets, TLC

(* The attribute, key and argument names of the model's records.  TLC     *)
(* orders the fields of a record by the first occurrence of their names,  *)
(* so every record below lists its fields in this (alphabetical) order    *)
(* and is in normal form as it is written.                                *)
FieldOrder ==
    [A |-> 0, B |-> 0, args |-> 0, base_id |-> 0, column |-> 0, data |-> 0,
     doc |-> 0, end |-> 0, error |-> 0, exc |-> 0, fields |-> 0, filterByFormula |-> 0,
     id |-> 0, index |-> 0, items |-> 0, json |-> 0, key |-> 0,
     key_type |-> 0, maxRecords |-> 0, members |-> 0, method |-> 0, modify |-> 0,
     offset |-> 0, params |-> 0, raised |-> 0, record_id |-> 0, records |-> 0,
     response |-> 0, ret |-> 0, session |-> 0, start |-> 0, status |-> 0, table_id |-> 0, timeout |-> 0,
     type |-> 0, typecast |-> 0, unit |-> 0,
     url |-> 0, val |-> 0, value |-> 0]

VARIABLES
    pc,        \* "idle" | "fetch" | "wait" | "returned" | "raised"
    fn,        \* the operation called last (or in progress)
    args,      \* its arguments
    ret,       \* its outcome: Return(v), Raise(e) or NoRet while running
    calls,     \* the HTTP requests issued by this call, in order
    pages,     \* the responses AirtableAPI.get has received in this call
    get_offset, \* AirtableAPI.get: the local variable `offset`
    get_data,  \* AirtableAPI.get: the local accumulator `data`
    envelope   \* inject_record_id: the caller's object after the call

vars == <<pc, fn, args, ret, calls, pages, get_offset, get_data, envelope>>

-----------------------------------------------------------------------------
(* Bounds of the model *)

MaxFill == 17      \* longest run of filler characters after a key prefix
MaxRows == 21      \* most rows of a tabular upload
MaxPages == 3      \* most pages a listing is spread over
MaxIndex == 3      \* largest index, either way, passed to inject_record_id

-----------------------------------------------------------------------------
(* Python values *)

PyNone == [type |-> "NoneType"]
PyStr(s) == [type |-> "str", val |-> s]
PyInt(i) == [type |-> "int", val |-> i]
PyBool(b) == [type |-> "bool", val |-> b]
PyList(s) == [type |-> "list", val |-> s]
PyDict(f) == [type |-> "dict", val |-> f]

Return(v) == [raised |-> FALSE, val |-> v]
Raise(e) == [exc |-> e, raised |-> TRUE]
NoRet == [raised |-> FALSE, val |-> [type |-> "pending"]]

\* Python truth value testing (`if record_id:`)
truthy(v) ==
    CASE v.type = "NoneType" -> FALSE
      [] v.type = "str" -> Len(v.val) > 0
      [] v.type = "list" -> Len(v.val) > 0
      [] v.type = "int" -> v.val # 0
      [] v.type = "bool" -> v.val
      [] v.type = "dict" -> DOMAIN v.val # {}
      [] OTHER -> TRUE

\* str.startswith
startswith(s, prefix) ==
    /\ Len(s) >= Len(prefix)
    /\ SubSeq(s, 1, Len(prefix)) = prefix

-----------------------------------------------------------------------------
(* utils.py: the identifier validator *)

VALID_KEY_PREFIX ==
    [k \in {"API Key", "Base ID", "Record ID"} |->
        CASE k = "API Key" -> <<"k", "e", "y">>
          [] k = "Base ID" -> <<"a", "p", "p">>
          [] k = "Record ID" -> <<"r", "e", "c">>]

KeyLength == 17

\* mutant: the length test accepts keys longer than 17 characters
check_key_nolen(key, key_type) ==
    IF key.type # "str" THEN Raise("ValueError")
    ELSE IF Len(key.val) < KeyLength THEN Raise("ValueError")
    ELSE IF key_type \notin DOMAIN VALID_KEY_PREFIX THEN Raise("ValueError")
    ELSE IF ~startswith(key.val, VALID_KEY_PREFIX[key_type]) THEN Raise("ValueError")
    ELSE Return(PyNone)

check_key(key, key_type) ==
    IF key.type # "str" THEN Raise("ValueError")
    ELSE IF Len(key.val) # KeyLength THEN Raise("ValueError")
    ELSE IF key_type \notin DOMAIN VALID_KEY_PREFIX THEN Raise("ValueError")
    ELSE IF ~startswith(key.val, VALID_KEY_PREFIX[key_type]) THEN Raise("ValueError")
    ELSE Return(PyNone)

-----------------------------------------------------------------------------
(* utils.py: the record codec *)

\* A pandas DataFrame: `index` rows, stored by column
DataFrame(n, columns) == [index |-> n, type |-> "DataFrame", val |-> columns]

\* pd.DataFrame(data) for a dict: every list column must have the same
\* length, a scalar is broadcast to that length, and a dict of scalars only
\* (no index can be derived) is a ValueError; an empty dict is an empty frame.
pd_DataFrame(d) ==
    LET cols == DOMAIN d.val
        lists == {c \in cols : d.val[c].type = "list"}
        lens == {Len(d.val[c].val) : c \in lists}
    IN  IF cols = {} THEN Return(DataFrame(0, d.val))
        ELSE IF lists = {} THEN Raise("ValueError")
        ELSE IF Cardinality(lens) # 1 THEN Raise("ValueError")
        ELSE LET n == CHOOSE l \in lens : TRUE
             IN  Return(DataFrame(n,
                     [c \in cols |-> IF c \in lists THEN d.val[c].val
                                     ELSE [i \in 1..n |-> d.val[c]]]))

\* DataFrame.to_dict("records"): one dict per row, in row order
to_dict_records(frame) ==
    [i \in 1..frame.index |-> PyDict([c \in DOMAIN frame.val |-> frame.val[c][i]])]

Min(a, b) == IF a <= b THEN a ELSE b

\* the Python slice iterable[lo:hi] of a list (0-based, clamped)
pyslice(iterable, lo, hi) == SubSeq(iterable, lo + 1, Min(hi, Len(iterable)))

\* the loop of parcels: for i in range(i, len(iterable), chunks)
RECURSIVE parcels_from(_, _, _)
parcels_from(iterable, chunks, i) ==
    IF i >= Len(iterable) THEN <<>>
    ELSE <<pyslice(iterable, i, i + chunks)>> \o parcels_from(iterable, chunks, i + chunks)

\* mutant: the chunk is one row too long
parcels_long(iterable, chunks) == parcels_from(iterable, chunks + 1, 0)

parcels(iterable, chunks) == parcels_from(iterable, chunks, 0)

ChunkSize == 10

construct_record(chunk, typecast) ==
    PyDict([records |-> PyList([i \in DOMAIN chunk |-> PyDict([fields |-> chunk[i]])]),
            typecast |-> PyBool(typecast)])

\* mutant: a dict that pandas turns into a frame is still sent as one row
convert_upload_onerow(data, typecast) ==
    IF data.type = "dict"
    THEN Return(PyList(<<construct_record(<<data>>, typecast)>>))
    ELSE IF data.type = "DataFrame"
    THEN LET chunked == parcels(to_dict_records(data), ChunkSize)
         IN  Return(PyList([j \in DOMAIN chunked |-> construct_record(chunked[j], typecast)]))
    ELSE Raise("ValueError")

convert_upload(data, typecast) ==
    IF data.type = "dict" /\ pd_DataFrame(data).raised
    THEN Return(PyList(<<construct_record(<<data>>, typecast)>>))
    ELSE LET frame == IF data.type = "dict" THEN pd_DataFrame(data).val ELSE data
         IN  IF frame.type = "DataFrame"
             THEN LET chunked == parcels(to_dict_records(frame), ChunkSize)
                  IN  Return(PyList([j \in DOMAIN chunked |->
                                        construct_record(chunked[j], typecast)]))
             ELSE Raise("ValueError")

\* dict.get(key): the value, or None when the key is absent
dict_get(d, key) == IF key \in DOMAIN d.val THEN d.val[key] ELSE PyNone

\* get_key: response.json().get(key), and on AttributeError response.get(key).
\* Only a dict has .get; a Response has .json(), whose result must be a dict.
get_key(response, key) ==
    IF response.type = "Response"
    THEN IF response.json.type = "dict" THEN Return(dict_get(response.json, key))
         ELSE Raise("AttributeError")
    ELSE IF response.type = "dict" THEN Return(dict_get(response, key))
    ELSE Raise("AttributeError")

\* list[index] with Python's negative indices: the 1-based position, or 0
\* when the index is out of range (IndexError)
pyindex(list, index) ==
    IF index >= 0 /\ index < Len(list) THEN index + 1
    ELSE IF index < 0 /\ index >= -Len(list) THEN Len(list) + index + 1
    ELSE 0

\* dict.update({key: value})
dict_update(d, key, value) ==
    PyDict([k \in DOMAIN d.val \cup {key} |-> IF k = key THEN value ELSE d.val[k]])

\* the outcome of a call together with the object it was given, as the
\* caller sees it afterwards
Outcome(object, result) == [data |-> object, ret |-> result]

\* mutant: the ID is written before it is validated
inject_record_id_late(data, record_id, index) ==
    LET records == get_key(data, "records")
    IN  IF records.raised THEN Outcome(data, records)
        ELSE IF records.val.type # "list" THEN Outcome(data, Raise("TypeError"))
        ELSE IF pyindex(records.val.val, index) = 0 THEN Outcome(data, Raise("IndexError"))
        ELSE IF records.val.val[pyindex(records.val.val, index)].type # "dict"
             THEN Outcome(data, Raise("AttributeError"))
        ELSE LET p == pyindex(records.val.val, index)
                 updated == dict_update(records.val.val[p], "id", record_id)
                 new == dict_update(data, "records",
                                    PyList([records.val.val EXCEPT ![p] = updated]))
             IN  IF check_key(record_id, "Record ID").raised
                 THEN Outcome(new, check_key(record_id, "Record ID"))
                 ELSE Outcome(new, Return(PyNone))

inject_record_id(data, record_id, index) ==
    IF check_key(record_id, "Record ID").raised
    THEN Outcome(data, check_key(record_id, "Record ID"))
    ELSE LET records == get_key(data, "records")
         IN  IF records.raised THEN Outcome(data, records)
             ELSE IF records.val.type # "list" THEN Outcome(data, Raise("TypeError"))
             ELSE IF pyindex(records.val.val, index) = 0
                  THEN Outcome(data, Raise("IndexError"))
             ELSE IF records.val.val[pyindex(records.val.val, index)].type # "dict"
                  THEN Outcome(data, Raise("AttributeError"))
             ELSE LET p == pyindex(records.val.val, index)
                      updated == dict_update(records.val.val[p], "id", record_id)
                  IN  Outcome(dict_update(data, "records",
                                  PyList([records.val.val EXCEPT ![p] = updated])),
                              Return(PyNone))

-----------------------------------------------------------------------------
(* api.py: the URL builder *)

\* AirtableAPI.base_url for the default version "v0"
base_url ==
    <<"h", "t", "t", "p", "s", ":", "/", "/", "a", "p", "i", ".", "a", "i", "r",
      "t", "a", "b", "l", "e", ".", "c", "o", "m", "/", "v", "0", "/">>

\* mutant: the record ID is appended without being validated
construct_url_nocheck(base_id, table_id, record_id) ==
    IF check_key(base_id, "Base ID").raised THEN check_key(base_id, "Base ID")
    ELSE IF truthy(record_id) /\ record_id.type = "str"
    THEN Return(PyStr(base_url \o base_id.val \o <<"/">> \o table_id.val
                      \o <<"/">> \o record_id.val))
    ELSE Return(PyStr(base_url \o base_id.val \o <<"/">> \o table_id.val))

construct_url(base_id, table_id, record_id) ==
    IF check_key(base_id, "Base ID").raised THEN check_key(base_id, "Base ID")
    ELSE IF truthy(record_id)
    THEN IF check_key(record_id, "Record ID").raised
         THEN check_key(record_id, "Record ID")
         ELSE Return(PyStr(base_url \o base_id.val \o <<"/">> \o table_id.val
                           \o <<"/">> \o record_id.val))
    ELSE Return(PyStr(base_url \o base_id.val \o <<"/">> \o table_id.val))

-----------------------------------------------------------------------------
(* json: serialisation *)

\* a str holding the JSON text of the document doc
JsonText(doc) == [doc |-> doc, type |-> "str"]

\* json.dumps: a dict becomes an object, a list an array, and so on
RECURSIVE to_json(_)
to_json(o) ==
    CASE o.type = "dict" -> [json |-> "object", members |-> [k \in DOMAIN o.val |-> to_json(o.val[k])]]
      [] o.type = "list" -> [items |-> [i \in DOMAIN o.val |-> to_json(o.val[i])], json |-> "array"]
      [] o.type = "bool" -> [json |-> IF o.val THEN "true" ELSE "false"]
      [] o.type = "int" -> [json |-> "number", val |-> o.val]
      [] o.type = "str" -> [json |-> "string", val |-> o.val]
      [] o.type = "NoneType" -> [json |-> "null"]

json_dumps(o) == JsonText(to_json(o))

\* json.load: an object becomes a dict, an array a list, and so on
RECURSIVE from_json(_)
from_json(j) ==
    CASE j.json = "object" -> PyDict([k \in DOMAIN j.members |-> from_json(j.members[k])])
      [] j.json = "array" -> PyList([i \in DOMAIN j.items |-> from_json(j.items[i])])
      [] j.json = "true" -> PyBool(TRUE)
      [] j.json = "false" -> PyBool(FALSE)
      [] j.json = "number" -> PyInt(j.val)
      [] j.json = "string" -> PyStr(j.val)
      [] j.json = "null" -> PyNone

\* json.load(StringIO(data)): text that is no JSON document is a
\* JSONDecodeError
json_load(text) ==
    IF "doc" \in DOMAIN text THEN Return(from_json(text.doc))
    ELSE Raise("JSONDecodeError")

-----------------------------------------------------------------------------
(* The transport adapter and the AirtableAPI operations *)

\* an HTTP response: its decoded JSON body and its status code
Response(body, status) == [json |-> body, status |-> status, type |-> "Response"]

\* get_response(session, method, **kwargs): the request handed to the
\* session's (or the default client's) verb method
get_response(method, url, params, body) ==
    [data |-> body, method |-> method, params |-> params, url |-> url]

\* mutant: every page is asked for without a cursor
fetch_nocursor(url, n_records, offset, query, fields) ==
    get_response("get", url,
                 PyDict([fields |-> fields, filterByFormula |-> query,
                         maxRecords |-> n_records, offset |-> PyNone]),
                 PyNone)

\* AirtableAPI.fetch
fetch(url, n_records, offset, query, fields) ==
    get_response("get", url,
                 PyDict([fields |-> fields, filterByFormula |-> query,
                         maxRecords |-> n_records, offset |-> offset]),
                 PyNone)

\* what list.extend(x) leaves in the list, for a list x
extend(list, x) == list \o x.val

\* mutant: the loop also stops at a page without records
get_page_stop_empty(response, acc) ==
    LET offset == get_key(response, "offset")
        records == get_key(response, "records")
    IN  IF offset.raised THEN offset
        ELSE IF records.raised THEN records
        ELSE IF records.val.type # "list" THEN Raise("TypeError")
        ELSE Return([data |-> extend(acc, records.val),
                     offset |-> IF records.val.val = <<>> THEN PyNone ELSE offset.val])

\* mutant: a page with an error status is refused
get_page_status(response, acc) ==
    LET offset == get_key(response, "offset")
        records == get_key(response, "records")
    IN  IF response.status >= 400 THEN Raise("HTTPError")
        ELSE IF offset.raised THEN offset
        ELSE IF records.raised THEN records
        ELSE IF records.val.type # "list" THEN Raise("TypeError")
        ELSE Return([data |-> extend(acc, records.val), offset |-> offset.val])

\* AirtableAPI.get, the body of the loop after the fetch: the new cursor
\* and the accumulator
get_page(response, acc) ==
    LET offset == get_key(response, "offset")
        records == get_key(response, "records")
    IN  IF offset.raised THEN offset
        ELSE IF records.raised THEN records
        ELSE IF records.val.type # "list" THEN Raise("TypeError")
        ELSE Return([data |-> extend(acc, records.val), offset |-> offset.val])

\* AirtableAPI.push: the body it posts
push_body(data, typecast) ==
    IF data.type = "dict" \/ data.type = "DataFrame"
    THEN json_dumps(convert_upload(data, typecast).val)
    ELSE data

\* mutant: data of any other type is sent as it is, as push sends it
upload_body_lenient(data, record_id, modify, typecast) ==
    LET loaded == IF data.type = "str" THEN json_load(data)
                  ELSE IF data.type = "dict" \/ data.type = "DataFrame"
                  THEN convert_upload(data, typecast)
                  ELSE Return(data)
    IN  IF loaded.raised THEN loaded
        ELSE IF modify
        THEN LET injected == inject_record_id(loaded.val, record_id, 0)
             IN  IF injected.ret.raised THEN injected.ret
                 ELSE Return(json_dumps(injected.data))
        ELSE Return(json_dumps(loaded.val))

\* AirtableAPI.update and AirtableAPI.replace up to the request: the
\* body, or the exception raised before any request
upload_body(data, record_id, modify, typecast) ==
    LET loaded == IF data.type = "str" THEN json_load(data)
                  ELSE IF data.type = "dict" \/ data.type = "DataFrame"
                  THEN convert_upload(data, typecast)
                  ELSE Raise("ValueError")
    IN  IF loaded.raised THEN loaded
        ELSE IF modify
        THEN LET injected == inject_record_id(loaded.val, record_id, 0)
             IN  IF injected.ret.raised THEN injected.ret
                 ELSE Return(json_dumps(injected.data))
        ELSE Return(json_dumps(loaded.val))

-----------------------------------------------------------------------------
(* query.py: the formula builder *)

\* the characters of an identifier
IdentChars ==
    {"A", "B", "C", "D", "E", "F", "G", "H", "I", "J", "K", "L", "M", "N", "O", "P",
     "Q", "R", "S", "T", "U", "V", "W", "X", "Y", "Z", "a", "b", "c", "d", "e", "f",
     "g", "h", "i", "j", "k", "l", "m", "n", "o", "p", "q", "r", "s", "t", "u", "v",
     "w", "x", "y", "z", "0", "1", "2", "3", "4", "5", "6", "7", "8", "9", "_"}

\* the formula-call pattern: a bare identifier immediately followed by
\* parentheses, as in NOW() or DATETIME_PARSE(a, b)
formula_call(s) ==
    /\ Len(s) >= 3
    /\ s[Len(s)] = ")"
    /\ \E i \in 2..(Len(s) - 1) :
           /\ s[i] = "("
           /\ \A j \in 1..(i - 1) : s[j] \in IdentChars

\* is_formula: a formula call is kept, anything else is a quoted literal
is_formula(value) ==
    IF formula_call(value.val) THEN value
    ELSE PyStr(<<"'">> \o value.val \o <<"'">>)

\* is_column: a formula call is kept, anything else is a column reference
is_column(value) ==
    IF formula_call(value.val) THEN value
    ELSE PyStr(<<"{">> \o value.val \o <<"}">>)

\* the fixed words of a date filter
OR_IS_AFTER == <<"O", "R", "(", "I", "S", "_", "A", "F", "T", "E", "R", "(">>
OR_IS_BEFORE == <<"O", "R", "(", "I", "S", "_", "B", "E", "F", "O", "R", "E", "(">>
IS_SAME == <<"I", "S", "_", "S", "A", "M", "E", "(">>

\* OR(IS_AFTER(col, value), IS_SAME(col, value, 'unit'))
after_clause(col, value, unit) ==
    OR_IS_AFTER \o col \o <<",", " ">> \o value \o <<")", ",", " ">>
        \o IS_SAME \o col \o <<",", " ">> \o value \o <<",", " ", "'">> \o unit
        \o <<"'", ")", ")">>

\* OR(IS_BEFORE(col, value), IS_SAME(col, value, 'unit'))
before_clause(col, value, unit) ==
    OR_IS_BEFORE \o col \o <<",", " ">> \o value \o <<")", ",", " ">>
        \o IS_SAME \o col \o <<",", " ">> \o value \o <<",", " ", "'">> \o unit
        \o <<"'", ")", ")">>

\* mutant: the two clauses of a range are combined end first
date_query_swapped(column, start, end, unit) ==
    IF ~truthy(column) THEN Raise("MissingColumn")
    ELSE IF start.type = "NoneType" /\ end.type = "NoneType" THEN Raise("MissingBound")
    ELSE LET col == is_column(column).val
         IN  IF end.type = "NoneType"
             THEN Return(PyStr(after_clause(col, is_formula(start).val, unit.val)))
             ELSE IF start.type = "NoneType"
             THEN Return(PyStr(before_clause(col, is_formula(end).val, unit.val)))
             ELSE Return(PyStr(<<"A", "N", "D", "(">>
                               \o before_clause(col, is_formula(end).val, unit.val)
                               \o <<",", " ">>
                               \o after_clause(col, is_formula(start).val, unit.val)
                               \o <<")">>))

\* date_query: the filter for a column's dates from start and up to end
date_query(column, start, end, unit) ==
    IF ~truthy(column) THEN Raise("MissingColumn")
    ELSE IF start.type = "NoneType" /\ end.type = "NoneType" THEN Raise("MissingBound")
    ELSE LET col == is_column(column).val
         IN  IF end.type = "NoneType"
             THEN Return(PyStr(after_clause(col, is_formula(start).val, unit.val)))
             ELSE IF start.type = "NoneType"
             THEN Return(PyStr(before_clause(col, is_formula(end).val, unit.val)))
             ELSE Return(PyStr(<<"A", "N", "D", "(">>
                               \o after_clause(col, is_formula(start).val, unit.val)
                               \o <<",", " ">>
                               \o before_clause(col, is_formula(end).val, unit.val)
                               \o <<")">>))

-----------------------------------------------------------------------------
(* Inputs *)

Fill(n) == [i \in 1..n |-> "x"]

KeyPrefixes ==
    {<<"k", "e", "y">>, <<"a", "p", "p">>, <<"r", "e", "c">>, <<"x", "x", "x">>,
     <<"R", "e", "c">>, <<"r", "e">>, <<"x", "r", "e", "c">>, <<>>}

\* Everything a caller may pass as a key: strings of many lengths, and
\* values that are not strings (a missing token is None).
KeyValues ==
    {PyStr(p \o Fill(n)) : p \in KeyPrefixes, n \in 0..MaxFill}
        \cup {PyNone, PyInt(0), PyInt(17), PyList(<<>>)}

KeyTypes == {"API Key", "Base ID", "Record ID", "Invalid", "Test", "record id", ""}

\* A smaller choice of identifiers for the operations that take several
SampleKeys ==
    {PyStr(p \o Fill(n)) : p \in {<<"k", "e", "y">>, <<"a", "p", "p">>, <<"r", "e", "c">>},
                           n \in (KeyLength - 4)..(KeyLength - 2)}
        \cup {PyStr(<<>>), PyNone, PyInt(0), PyInt(17), PyList(<<>>)}

TableIds == {PyStr(<<"T">>), PyStr(<<"t", "b", "l", "/", "1">>), PyStr(<<>>)}

\* Columns of n cells: the row number, its parity, or one value throughout
Patterns == {"idx", "alt", "const"}

Cell(p, i) == PyInt(CASE p = "idx" -> i [] p = "alt" -> i % 2 [] OTHER -> 0)

Column(p, n) == [i \in 1..n |-> Cell(p, i)]

ColumnChoices == {[A |-> p] : p \in Patterns} \cup {[A |-> p, B |-> "alt"] : p \in Patterns}

\* DataFrames of 0..MaxRows rows
Frames ==
    {DataFrame(n, [c \in DOMAIN ch |-> Column(ch[c], n)]) : n \in 0..MaxRows, ch \in ColumnChoices}

\* {column: [...], ...} with columns of one length
ColumnDicts ==
    {PyDict([c \in DOMAIN ch |-> PyList(Column(ch[c], n))]) : n \in 0..MaxRows, ch \in ColumnChoices}

\* {column: [...], ...} with columns of different lengths
RaggedDicts ==
    {PyDict([A |-> PyList(Column("idx", n)), B |-> PyList(Column("alt", m))]) :
        n \in 0..2, m \in 1..3} \ ColumnDicts

\* a scalar column beside a list column
MixedDicts == {PyDict([A |-> PyInt(7), B |-> PyList(Column("idx", n))]) : n \in 0..3}

\* {column: value, ...}: one row
FlatDicts ==
    {PyDict([A |-> PyInt(1)]), PyDict([A |-> PyInt(1), B |-> PyInt(2)]),
     PyDict([A |-> PyStr(<<"a", "b">>), B |-> PyNone])}

EmptyDict == PyDict([c \in {} |-> PyNone])

\* a plain list of row dicts
RowLists ==
    {PyList([i \in 1..n |-> PyDict([A |-> Cell("idx", i), B |-> Cell("alt", i)])]) :
        n \in 0..MaxRows}

NotJson == PyStr(<<"{", "{">>)

UploadInputs ==
    Frames \cup ColumnDicts \cup RaggedDicts \cup MixedDicts \cup FlatDicts
        \cup {EmptyDict} \cup RowLists \cup {PyNone, PyInt(5), NotJson}

Row1 == PyDict([A |-> PyInt(1), B |-> PyInt(2)])
Row2 == PyDict([A |-> PyInt(3)])

RecordId1 == PyStr(<<"r", "e", "c">> \o Fill(KeyLength - 3))

\* what inject_record_id is given: envelopes of 0..2 records, one whose first
\* record has an ID already, a list of envelopes, and a dict without records
InjectInputs ==
    {construct_record(rows, t) : rows \in {<<>>, <<Row1>>, <<Row1, Row2>>, <<Row2, Row1>>},
                                 t \in BOOLEAN}
        \cup {PyDict([records |-> PyList(<<PyDict([fields |-> Row1, id |-> RecordId1]),
                                           PyDict([fields |-> Row2])>>),
                      typecast |-> PyBool(TRUE)]),
              PyList(<<construct_record(<<Row1>>, TRUE)>>),
              PyDict([typecast |-> PyBool(TRUE)])}

TableUrl == construct_url(PyStr(<<"a", "p", "p">> \o Fill(KeyLength - 3)), PyStr(<<"T">>), PyNone).val

\* record objects as the server lists them
Rec1 == PyDict([fields |-> Row1, id |-> RecordId1])
Rec2 == PyDict([fields |-> Row2, id |-> PyStr(<<"r", "e", "c">> \o Fill(KeyLength - 4) \o <<"y">>)])

Cursors == {PyStr(<<"c", "1">>), PyStr(<<"c", "2">>)}

RecordLists == {<<>>, <<Rec1>>, <<Rec2, Rec1>>}

StatusCodes == {200, 404}

ErrorBody == PyDict([error |-> PyStr(<<"N", "O", "T", "_", "F", "O", "U", "N", "D">>)])

\* listing pages with a cursor, listing pages without, and an error body
CursorPages ==
    {Response(PyDict([offset |-> c, records |-> PyList(rs)]), st) :
        c \in Cursors, rs \in RecordLists, st \in StatusCodes}

LastPages ==
    {Response(PyDict([records |-> PyList(rs)]), st) : rs \in RecordLists, st \in StatusCodes}
        \cup {Response(ErrorBody, 404)}

\* what push, update and replace are given as data
WriteInputs ==
    FlatDicts \cup {EmptyDict}
        \cup {DataFrame(n, [c \in {"A"} |-> Column("idx", n)]) : n \in {1, 2, MaxRows}}
        \cup {json_dumps(construct_record(<<Row1>>, TRUE)),
              json_dumps(PyList(<<construct_record(<<Row1>>, TRUE)>>)),
              NotJson, PyNone, PyInt(5), PyList(<<Row1>>)}

WriteResponses ==
    {Response(PyDict([records |-> PyList(<<Rec1>>)]), 200), Response(ErrorBody, 422)}

\* the transport answers a request with a response, or fails
WriteAnswers == {Return(r) : r \in WriteResponses} \cup {Raise("TransportError")}

\* the tokens the formula builder classifies
QueryTokens ==
    {PyStr(<<"N", "O", "W", "(", ")">>),
     PyStr(<<"C", "R", "E", "A", "T", "E", "D", "_", "T", "I", "M", "E", "(", ")">>),
     PyStr(<<"R", "E", "C", "O", "R", "D", "_", "I", "D", "(", ")">>),
     PyStr(<<"D", "A", "T", "E", "T", "I", "M", "E", "_", "P", "A", "R", "S", "E", "(", "v", "a", "l", "1", ",", " ", "v", "a", "l", "2", ")">>),
     PyStr(<<"d", "a", "t", "e">>),
     PyStr(<<"e", "x", "a", "m", "p", "l", "e">>),
     PyStr(<<"2", "0", "2", "2", "0", "8", "1", "4">>)}

\* the column of a date filter: a name, the empty string or None
QueryColumns == {PyNone, PyStr(<<>>), PyStr(<<"d", "a", "t", "e">>), PyStr(<<"c", "o", "l", "u", "m", "n">>)}

\* a bound of a date filter: a literal date, a formula call or None
QueryBounds ==
    {PyNone, PyStr(<<"2", "0", "2", "2", "0", "8", "1", "4">>),
     PyStr(<<"2", "0", "2", "2", "0", "8", "1", "7">>), PyStr(<<"N", "O", "W", "(", ")">>)}

QueryUnits == {PyStr(<<"d", "a", "y">>), PyStr(<<"h", "o", "u", "r">>)}

-----------------------------------------------------------------------------
(* The state machine *)

Init ==
    /\ pc = "idle"
    /\ fn = "none"
    /\ args = <<>>
    /\ ret = NoRet
    /\ calls = <<>>
    /\ pages = <<>>
    /\ get_offset = PyNone
    /\ get_data = <<>>
    /\ envelope = PyNone

\* a whole call: its outcome r, the object obj it was given as the caller
\* sees it afterwards, and the requests reqs it issued
Complete(name, a, r, obj, reqs) ==
    /\ fn' = name
    /\ args' = a
    /\ ret' = r
    /\ pc' = IF r.raised THEN "raised" ELSE "returned"
    /\ calls' = reqs
    /\ envelope' = obj
    /\ UNCHANGED <<pages, get_offset, get_data>>

CheckKey ==
    /\ pc = "idle"
    /\ \E key \in KeyValues, key_type \in KeyTypes :
           Complete("check_key", [key |-> key, key_type |-> key_type],
                    check_key(key, key_type), PyNone, <<>>)

ConstructUrl ==
    /\ pc = "idle"
    /\ \E base_id \in SampleKeys, table_id \in TableIds, record_id \in SampleKeys :
           Complete("construct_url",
                    [base_id |-> base_id, record_id |-> record_id, table_id |-> table_id],
                    construct_url(base_id, table_id, record_id), PyNone, <<>>)

ConvertUpload ==
    /\ pc = "idle"
    /\ \E d \in UploadInputs, typecast \in BOOLEAN :
           Complete("convert_upload", [data |-> d, typecast |-> typecast],
                    convert_upload(d, typecast), PyNone, <<>>)

InjectRecordId ==
    /\ pc = "idle"
    /\ \E d \in InjectInputs, record_id \in SampleKeys, index \in (-MaxIndex)..MaxIndex :
           LET out == inject_record_id(d, record_id, index)
           IN  Complete("inject_record_id",
                        [data |-> d, index |-> index, record_id |-> record_id],
                        out.ret, out.data, <<>>)

\* query.is_formula
IsFormula ==
    /\ pc = "idle"
    /\ \E value \in QueryTokens :
           Complete("is_formula", [value |-> value], Return(is_formula(value)), PyNone, <<>>)

\* query.is_column
IsColumn ==
    /\ pc = "idle"
    /\ \E value \in QueryTokens :
           Complete("is_column", [value |-> value], Return(is_column(value)), PyNone, <<>>)

\* query.date_query
DateQuery ==
    /\ pc = "idle"
    /\ \E column \in QueryColumns, start \in QueryBounds, end \in QueryBounds,
          unit \in QueryUnits :
           Complete("date_query",
                    [column |-> column, end |-> end, start |-> start, unit |-> unit],
                    date_query(column, start, end, unit), PyNone, <<>>)

\* AirtableAPI.push: one POST, answered or failed by the transport
Push ==
    /\ pc = "idle"
    /\ \E d \in WriteInputs, typecast \in BOOLEAN,
             answer \in WriteAnswers :
           Complete("push", [data |-> d, typecast |-> typecast, url |-> TableUrl],
                    answer, PyNone,
                    <<get_response("post", TableUrl, PyNone, push_body(d, typecast))>>)

\* AirtableAPI.update: the body is built, then one PATCH
Update ==
    /\ pc = "idle"
    /\ \E d \in WriteInputs, record_id \in SampleKeys, modify \in BOOLEAN, typecast \in BOOLEAN,
          answer \in WriteAnswers :
           LET body == upload_body(d, record_id, modify, typecast)
               a == [data |-> d, modify |-> modify, record_id |-> record_id,
                     typecast |-> typecast, url |-> TableUrl]
           IN  IF body.raised
               THEN Complete("update", a, body, PyNone, <<>>)
               ELSE Complete("update", a, answer, PyNone,
                             <<get_response("patch", TableUrl, PyNone, body.val)>>)

\* AirtableAPI.replace: the body is built, then one PUT
Replace ==
    /\ pc = "idle"
    /\ \E d \in WriteInputs, record_id \in SampleKeys, modify \in BOOLEAN, typecast \in BOOLEAN,
          answer \in WriteAnswers :
           LET body == upload_body(d, record_id, modify, typecast)
               a == [data |-> d, modify |-> modify, record_id |-> record_id,
                     typecast |-> typecast, url |-> TableUrl]
           IN  IF body.raised
               THEN Complete("replace", a, body, PyNone, <<>>)
               ELSE Complete("replace", a, answer, PyNone,
                             <<get_response("put", TableUrl, PyNone, body.val)>>)

\* AirtableAPI.get is called: data = [], offset as given
Get ==
    /\ pc = "idle"
    /\ \E offset \in {PyNone, PyStr(<<"c", "0">>)} :
        /\ pc' = "fetch"
        /\ fn' = "get"
        /\ args' = [fields |-> PyNone, filterByFormula |-> PyNone, maxRecords |-> PyNone,
                    offset |-> offset, url |-> TableUrl]
        /\ ret' = NoRet
        /\ calls' = <<>>
        /\ pages' = <<>>
        /\ get_offset' = offset
        /\ get_data' = <<>>
        /\ UNCHANGED envelope

\* the loop issues self.fetch with the current cursor and blocks
GetFetch ==
    /\ pc = "fetch"
    /\ calls' = Append(calls, fetch(args.url, args.maxRecords, get_offset,
                                    args.filterByFormula, args.fields))
    /\ pc' = "wait"
    /\ UNCHANGED <<fn, args, ret, pages, get_offset, get_data, envelope>>

\* the response arrives: the cursor and the accumulator are updated, and the
\* loop ends when the cursor is None
GetPage ==
    /\ pc = "wait"
    /\ \E response \in LastPages \cup (IF Len(pages) + 1 < MaxPages THEN CursorPages ELSE {}) :
        LET step == get_page(response, get_data)
        IN  /\ pages' = Append(pages, response)
            /\ IF step.raised
               THEN /\ pc' = "raised"
                    /\ ret' = step
                    /\ UNCHANGED <<get_offset, get_data>>
               ELSE /\ get_offset' = step.val.offset
                    /\ get_data' = step.val.data
                    /\ IF step.val.offset.type = "NoneType"
                       THEN pc' = "returned" /\ ret' = Return(PyList(step.val.data))
                       ELSE pc' = "fetch" /\ UNCHANGED ret
    /\ UNCHANGED <<fn, args, calls, envelope>>

\* mutant: a failed fetch is tried again
GetFail_retry ==
    /\ pc = "wait"
    /\ Len(calls) < MaxPages + 1
    /\ pc' = "fetch"
    /\ UNCHANGED <<fn, args, ret, calls, pages, get_offset, get_data, envelope>>

\* the fetch fails: nothing in get catches the exception
GetFail ==
    /\ pc = "wait"
    /\ pc' = "raised"
    /\ ret' = Raise("TransportError")
    /\ UNCHANGED <<fn, args, calls, pages, get_offset, get_data, envelope>>

\* the caller takes the outcome and is free to make its next call
Reset ==
    /\ pc \in {"returned", "raised"}
    /\ pc' = "idle"
    /\ fn' = "none"
    /\ args' = <<>>
    /\ ret' = NoRet
    /\ calls' = <<>>
    /\ pages' = <<>>
    /\ get_offset' = PyNone
    /\ get_data' = <<>>
    /\ envelope' = PyNone

Next ==
    \/ CheckKey
    \/ ConstructUrl
    \/ ConvertUpload
    \/ InjectRecordId
    \/ IsFormula
    \/ IsColumn
    \/ DateQuery
    \/ Push
    \/ Update
    \/ Replace
    \/ Get
    \/ GetFetch
    \/ GetPage
    \/ GetFail
    \/ Reset

Spec == Init /\ [][Next]_vars

-----------------------------------------------------------------------------
(* Properties *)

\* an identifier as the specification defines it: a string of exactly 17
\* characters that starts with its kind's prefix
ValidKey(key, kind) ==
    /\ key.type = "str"
    /\ Len(key.val) = 17
    /\ \/ kind = "API Key" /\ SubSeq(key.val, 1, 3) = <<"k", "e", "y">>
       \/ kind = "Base ID" /\ SubSeq(key.val, 1, 3) = <<"a", "p", "p">>
       \/ kind = "Record ID" /\ SubSeq(key.val, 1, 3) = <<"r", "e", "c">>

\* C9: check_key returns normally (None) exactly when the value is a string
\* of 17 characters, the kind is one of API Key, Base ID, Record ID and the
\* value starts with that kind's prefix; in every other case it raises
\* ValueError; it issues no request and changes no object.
C9_CheckKey ==
    fn = "check_key" =>
        /\ ValidKey(args.key, args.key_type) => ~ret.raised /\ ret.val.type = "NoneType"
        /\ ~ValidKey(args.key, args.key_type) => ret.raised /\ ret.exc = "ValueError"
        /\ calls = <<>>
        /\ envelope.type = "NoneType"

C9_Witness ==
    /\ fn = "check_key"
    /\ args.key_type = "Record ID"
    /\ ~ret.raised

ApiRoot ==
    <<"h", "t", "t", "p", "s", ":", "/", "/", "a", "p", "i", ".", "a", "i", "r",
      "t", "a", "b", "l", "e", ".", "c", "o", "m", "/", "v", "0">>

\* the URL the specification composes, with or without a record segment
TableUrlOf(b, t) == ApiRoot \o <<"/">> \o b.val \o <<"/">> \o t.val
RecordUrlOf(b, t, r) == TableUrlOf(b, t) \o <<"/">> \o r.val

\* construct_url as the specification states it, for a record ID that counts
\* as given when `given` holds
UrlContract(given) ==
    LET b == args.base_id
        t == args.table_id
        r == args.record_id
    IN  IF ValidKey(b, "Base ID") /\ (given => ValidKey(r, "Record ID"))
        THEN /\ ~ret.raised
             /\ ret.val.type = "str"
             /\ ret.val.val = IF given THEN RecordUrlOf(b, t, r) ELSE TableUrlOf(b, t)
        ELSE ret.raised /\ ret.exc = "ValueError"

\* a record ID that is not None
Present(r) == r.type # "NoneType"

\* a record ID that is neither None nor empty (an empty string, an empty
\* list, zero)
NonEmpty(r) ==
    CASE r.type = "NoneType" -> FALSE
      [] r.type = "str" -> r.val # <<>>
      [] r.type = "list" -> r.val # <<>>
      [] r.type = "int" -> r.val # 0

\* C10 as stated: construct_url returns <apiRoot>/<baseID>/<tableID> when no
\* recordID is given and <apiRoot>/<baseID>/<tableID>/<recordID> when one is,
\* and returns a URL only if baseID is a valid Base ID and every recordID
\* that is present is a valid Record ID; otherwise it raises ValueError.
\* (Stated for a recordID that is None or a string.)
C10_Original ==
    fn = "construct_url" /\ (args.record_id.type = "NoneType" \/ args.record_id.type = "str")
        => UrlContract(Present(args.record_id))

\* C10, amended: the same, where a recordID counts as given only if it is
\* neither None nor empty: an empty recordID is treated as absent, it is not
\* validated and the table URL is returned.
C10_ConstructUrl == fn = "construct_url" => UrlContract(NonEmpty(args.record_id))

C10_Witness ==
    /\ fn = "construct_url"
    /\ ~ret.raised
    /\ NonEmpty(args.record_id)
    /\ Len(ret.val.val) > Len(TableUrlOf(args.base_id, args.table_id))

\* The shapes of tabular input: a DataFrame, a dict of equally long list
\* columns, a flat mapping of scalars (one row), a plain list of one or more
\* row dicts
IsFrame(d) == d.type = "DataFrame"

IsColumnar(d) ==
    /\ d.type = "dict"
    /\ DOMAIN d.val # {}
    /\ \A c \in DOMAIN d.val : d.val[c].type = "list"
    /\ \A c1, c2 \in DOMAIN d.val : Len(d.val[c1].val) = Len(d.val[c2].val)

IsFlat(d) ==
    /\ d.type = "dict"
    /\ DOMAIN d.val # {}
    /\ \A c \in DOMAIN d.val : d.val[c].type # "list"

IsRowList(d) ==
    /\ d.type = "list"
    /\ d.val # <<>>
    /\ \A i \in DOMAIN d.val : d.val[i].type = "dict"

\* the rows of a tabular input, in order
InputRows(d) ==
    CASE IsFrame(d) ->
            [i \in 1..d.index |-> PyDict([c \in DOMAIN d.val |-> d.val[c][i]])]
      [] IsColumnar(d) ->
            LET n == Len(d.val[CHOOSE c \in DOMAIN d.val : TRUE].val)
            IN  [i \in 1..n |-> PyDict([c \in DOMAIN d.val |-> d.val[c].val[i]])]
      [] IsFlat(d) -> <<d>>
      [] IsRowList(d) -> d.val

RECURSIVE Flatten(_)
Flatten(ss) == IF ss = <<>> THEN <<>> ELSE Head(ss) \o Flatten(Tail(ss))

\* an UploadEnvelope: {records: [{fields: ...}, ...], typecast: bool}
IsEnvelope(e) ==
    /\ e.type = "dict"
    /\ DOMAIN e.val = {"records", "typecast"}
    /\ e.val.records.type = "list"
    /\ e.val.typecast.type = "bool"
    /\ \A i \in DOMAIN e.val.records.val :
        /\ e.val.records.val[i].type = "dict"
        /\ "fields" \in DOMAIN e.val.records.val[i].val
        /\ DOMAIN e.val.records.val[i].val \subseteq {"fields", "id"}

EnvelopeFields(e) == [i \in DOMAIN e.val.records.val |-> e.val.records.val[i].val.fields]

\* the `fields` of all records of a list of envelopes, in output order
AllFields(out) == Flatten([j \in DOMAIN out |-> EnvelopeFields(out[j])])

\* C4: for a tabular input of n rows (a DataFrame, a dict of equally long
\* columns, a flat mapping) convert_upload returns ceil(n/10) envelopes, each
\* of 1 to 10 records, every one but the last of exactly 10, each carrying the
\* typecast flag, and the envelopes' fields in output order are the input
\* rows in their order.
C4_Chunking ==
    fn = "convert_upload" /\ (IsFrame(args.data) \/ IsColumnar(args.data) \/ IsFlat(args.data)) =>
        LET rows == InputRows(args.data)
            n == Len(rows)
            out == ret.val.val
        IN  /\ ~ret.raised
            /\ ret.val.type = "list"
            /\ Len(out) = (n + 9) \div 10
            /\ \A j \in DOMAIN out :
                /\ IsEnvelope(out[j])
                /\ Len(out[j].val.records.val) \in 1..10
                /\ j < Len(out) => Len(out[j].val.records.val) = 10
                /\ out[j].val.typecast.val = args.typecast
                /\ \A i \in DOMAIN out[j].val.records.val :
                       DOMAIN out[j].val.records.val[i].val = {"fields"}
            /\ AllFields(out) = rows

C4_Witness ==
    /\ fn = "convert_upload"
    /\ IsColumnar(args.data)
    /\ Len(InputRows(args.data)) > 20
    /\ ~ret.raised
    /\ Len(ret.val.val) = 3

\* the dict of list columns with the rows of a DataFrame
AsColumns(frame) == PyDict([c \in DOMAIN frame.val |-> PyList(frame.val[c])])

\* what C5 says of the inputs convert_upload takes, where a plain list of row
\* dicts is one of the accepted shapes iff listAccepted
ShapeContract(listAccepted) ==
    LET d == args.data
        accepted == \/ IsFrame(d) \/ IsColumnar(d) \/ IsFlat(d)
                    \/ listAccepted /\ IsRowList(d)
    IN  /\ accepted =>
            /\ ~ret.raised
            /\ ret.val.type = "list"
            /\ \A j \in DOMAIN ret.val.val : IsEnvelope(ret.val.val[j])
            /\ AllFields(ret.val.val) = InputRows(d)
        /\ IsFlat(d) => Len(ret.val.val) = 1 /\ Len(ret.val.val[1].val.records.val) = 1
        /\ IsFrame(d) => ret = convert_upload(AsColumns(d), args.typecast)
        /\ ret.raised => ret.exc = "ValueError" /\ ~accepted

\* C5 as stated: all three shapes are accepted: an ordered sequence of
\* row-mappings is taken as it is, one record per row in order, like the
\* equivalent dict of sequences; a flat mapping becomes a single row; only an
\* input of none of the three shapes fails, with ValueError.
C5_Original == fn = "convert_upload" => ShapeContract(TRUE)

\* C5, amended: the row-sequence shape is accepted only as a DataFrame, which
\* is encoded like the equivalent dict of sequences, one record per row in
\* order; a non-empty flat mapping becomes a single row; convert_upload
\* raises ValueError exactly when the input is neither a dict nor a
\* DataFrame, so a plain list of row-mappings is rejected.
C5_Shapes ==
    fn = "convert_upload" =>
        /\ ShapeContract(FALSE)
        /\ ret.raised <=> (args.data.type # "dict" /\ args.data.type # "DataFrame")

C5_Witness ==
    /\ fn = "convert_upload"
    /\ IsRowList(args.data)
    /\ Len(args.data.val) > 1
    /\ ret.raised

\* the envelope the specification gives for one row m: one record, and the
\* record ID when there is one
OneRowEnvelope(m, t) ==
    PyDict([records |-> PyList(<<PyDict([fields |-> m])>>), typecast |-> PyBool(t)])

OneRowEnvelopeWithId(m, t, rid) ==
    PyDict([records |-> PyList(<<PyDict([fields |-> m, id |-> rid])>>),
            typecast |-> PyBool(t)])

\* a request body that is the JSON text of one UploadEnvelope of at most 10
\* records
IsEnvelopeBody(body) ==
    /\ body.type = "str"
    /\ "doc" \in DOMAIN body
    /\ body.doc.json = "object"
    /\ IsEnvelope(from_json(body.doc))
    /\ Len(from_json(body.doc).val.records.val) <= 10

C7_UpdateReplace ==
    /\ fn \in {"update", "replace"}
    /\ IsFlat(args.data)
    /\ ValidKey(args.record_id, "Record ID")
    /\ args.modify
    => /\ Len(calls) = 1
       /\ calls[1].method = (IF fn = "update" THEN "patch" ELSE "put")
       /\ calls[1].data = json_dumps(OneRowEnvelopeWithId(args.data, args.typecast,
                                                          args.record_id))

\* C8: inject_record_id on an envelope of n records. With a well-formed ID
\* and 0 <= index < n it sets records[index].id and changes nothing else; with
\* a malformed ID it raises ValueError, and with a well-formed ID and
\* index >= n it raises IndexError, the envelope being as it was in both cases.
C8_Inject ==
    fn = "inject_record_id" /\ IsEnvelope(args.data) =>
        LET before == args.data.val.records.val
            n == Len(before)
            valid == ValidKey(args.record_id, "Record ID")
        IN  /\ valid /\ args.index \in 0..(n - 1) =>
                LET after == envelope.val.records.val
                IN  /\ ~ret.raised
                    /\ DOMAIN envelope.val = DOMAIN args.data.val
                    /\ envelope.val.typecast = args.data.val.typecast
                    /\ Len(after) = n
                    /\ after[args.index + 1].val.id = args.record_id
                    /\ \A i \in 1..n :
                        /\ after[i].val.fields = before[i].val.fields
                        /\ i # args.index + 1 => after[i] = before[i]
            /\ ~valid => ret.raised /\ ret.exc = "ValueError" /\ envelope = args.data
            /\ valid /\ args.index >= n =>
                ret.raised /\ ret.exc = "IndexError" /\ envelope = args.data

C8_Witness ==
    /\ fn = "inject_record_id"
    /\ IsEnvelope(args.data)
    /\ args.index = 1
    /\ ~ret.raised
    /\ envelope # args.data

\* a response whose body carries a cursor, and the records of a listing page
HasOffset(response) == response.json.type = "dict" /\ "offset" \in DOMAIN response.json.val
PageRecords(response) == response.json.val.records.val

\* C1: when get returns, the last page received is the first one without an
\* offset, one fetch was issued per page, and the result is the pages'
\* records concatenated in arrival order; while the loop runs every page
\* received so far had an offset (whether or not it had records); only a
\* body without `records` makes get raise on a page it received.
C1_Pagination ==
    fn = "get" =>
        /\ pc = "returned" =>
            LET k == Len(pages)
            IN  /\ k >= 1
                /\ Len(calls) = k
                /\ ~HasOffset(pages[k])
                /\ \A j \in 1..(k - 1) : HasOffset(pages[j])
                /\ ret.val.type = "list"
                /\ ret.val.val = Flatten([j \in 1..k |-> PageRecords(pages[j])])
        /\ pc \in {"fetch", "wait"} => \A j \in DOMAIN pages : HasOffset(pages[j])
        /\ pc = "raised" /\ ret.exc # "TransportError" =>
            "records" \notin DOMAIN pages[Len(pages)].json.val

C1_Witness ==
    /\ fn = "get"
    /\ pc = "returned"
    /\ Len(pages) = 3
    /\ PageRecords(pages[2]) = <<>>
    /\ Len(ret.val.val) > 1

\* C2: the fetches of one get call form one cursor chain: the first carries
\* the caller's offset, each later one the offset of the page received just
\* before it, and a fetch is issued only when every earlier one was answered
\* (at most one is ever in flight).
C2_CursorChain ==
    fn = "get" =>
        /\ Len(calls) = Len(pages) + (IF pc = "wait" \/ (pc = "raised" /\ ret.exc = "TransportError")
                                      THEN 1 ELSE 0)
        /\ \A j \in DOMAIN calls :
            /\ calls[j].method = "get"
            /\ calls[j].url = args.url
            /\ j = 1 => calls[j].params.val.offset = args.offset
            /\ j > 1 =>
                /\ HasOffset(pages[j - 1])
                /\ calls[j].params.val.offset = pages[j - 1].json.val.offset

C2_Witness ==
    /\ fn = "get"
    /\ Len(calls) = 3
    /\ calls[2].params.val.offset # calls[3].params.val.offset
    /\ calls[1].params.val.offset.type = "str"

\* C3: a failed fetch ends the call: the exception reaches the caller, who
\* gets no records, and no fetch follows it (no retry, no later page); the
\* call returns only when every fetch was answered.
C3_FailurePropagates ==
    fn = "get" =>
        /\ Len(calls) <= Len(pages) + 1
        /\ pc \in {"fetch", "returned"} => Len(calls) = Len(pages)
        /\ pc = "raised" /\ Len(calls) = Len(pages) + 1 =>
            /\ ret.exc = "TransportError"
            /\ "val" \notin DOMAIN ret

C3_Witness ==
    /\ fn = "get"
    /\ pc = "raised"
    /\ ret.exc = "TransportError"
    /\ Len(pages) = 2
    /\ get_data # <<>>

-----------------------------------------------------------------------------
(* The formula builder *)

Given(v) == v.type # "NoneType"

\* a bound as it stands in the filter: a formula call as it is, a literal
\* between single quotes
InFilter(v) ==
    IF v = PyStr(<<"N", "O", "W", "(", ")">>) THEN v.val ELSE <<"'">> \o v.val \o <<"'">>

\* OR(IS_AFTER({col}, start), IS_SAME({col}, start, 'unit'))
StartClause(c, v, u) ==
    <<"O", "R", "(", "I", "S", "_", "A", "F", "T", "E", "R", "(", "{">> \o c.val \o <<"}", ",", " ">> \o InFilter(v)
        \o <<")", ",", " ", "I", "S", "_", "S", "A", "M", "E", "(", "{">> \o c.val \o <<"}", ",", " ">> \o InFilter(v)
        \o <<",", " ", "'">> \o u.val \o <<"'", ")", ")">>

\* OR(IS_BEFORE({col}, end), IS_SAME({col}, end, 'unit'))
EndClause(c, v, u) ==
    <<"O", "R", "(", "I", "S", "_", "B", "E", "F", "O", "R", "E", "(", "{">> \o c.val \o <<"}", ",", " ">> \o InFilter(v)
        \o <<")", ",", " ", "I", "S", "_", "S", "A", "M", "E", "(", "{">> \o c.val \o <<"}", ",", " ">> \o InFilter(v)
        \o <<",", " ", "'">> \o u.val \o <<"'", ")", ")">>

\* C11: date_query fails with MissingColumn when the column is absent (None
\* or empty) and otherwise with MissingBound when both bounds are absent;
\* with only start it returns OR(IS_AFTER({col}, 'start'), IS_SAME({col},
\* 'start', 'unit')), with only end OR(IS_BEFORE({col}, 'end'),
\* IS_SAME({col}, 'end', 'unit')), and with both AND(<start-clause>,
\* <end-clause>) of exactly these two clauses, start first; a bound that is
\* a formula call stands unquoted.
C11_DateQuery ==
    fn = "date_query" =>
        LET c == args.column
            s == args.start
            e == args.end
            u == args.unit
        IN  /\ (c = PyNone \/ c = PyStr(<<>>)) => ret = Raise("MissingColumn")
            /\ (Given(c) /\ c # PyStr(<<>>)) =>
                /\ (~Given(s) /\ ~Given(e)) => ret = Raise("MissingBound")
                /\ (Given(s) /\ ~Given(e)) => ret = Return(PyStr(StartClause(c, s, u)))
                /\ (~Given(s) /\ Given(e)) => ret = Return(PyStr(EndClause(c, e, u)))
                /\ (Given(s) /\ Given(e)) =>
                    ret = Return(PyStr(<<"A", "N", "D", "(">> \o StartClause(c, s, u)
                                       \o <<",", " ">> \o EndClause(c, e, u) \o <<")">>))

\* the range of the repository's test: date, 20220814 to 20220817, by day
C11_Witness ==
    /\ fn = "date_query"
    /\ pc = "returned"
    /\ args.column = PyStr(<<"d", "a", "t", "e">>)
    /\ args.start = PyStr(<<"2", "0", "2", "2", "0", "8", "1", "4">>)
    /\ args.end = PyStr(<<"2", "0", "2", "2", "0", "8", "1", "7">>)
    /\ args.unit = PyStr(<<"d", "a", "y">>)
    /\ ret.val.val =
           <<"A", "N", "D", "(", "O", "R", "(", "I", "S", "_", "A", "F", "T", "E", "R",
             "(", "{", "d", "a", "t", "e", "}", ",", " ", "'", "2", "0", "2", "2", "0",
             "8", "1", "4", "'", ")", ",", " ", "I", "S", "_", "S", "A", "M", "E", "(",
             "{", "d", "a", "t", "e", "}", ",", " ", "'", "2", "0", "2", "2", "0", "8",
             "1", "4", "'", ",", " ", "'", "d", "a", "y", "'", ")", ")", ",", " ", "O",
             "R", "(", "I", "S", "_", "B", "E", "F", "O", "R", "E", "(", "{", "d", "a",
             "t", "e", "}", ",", " ", "'", "2", "0", "2", "2", "0", "8", "1", "7", "'",
             ")", ",", " ", "I", "S", "_", "S", "A", "M", "E", "(", "{", "d", "a", "t",
             "e", "}", ",", " ", "'", "2", "0", "2", "2", "0", "8", "1", "7", "'", ",",
             " ", "'", "d", "a", "y", "'", ")", ")", ")">>

-----------------------------------------------------------------------------
(* Validation before transport *)

\* data that update and replace do not take: neither str, dict nor DataFrame
Unsupported(d) == d.type \notin {"str", "dict", "DataFrame"}

\* ValueError and its subclass json.JSONDecodeError
ValidationErrors == {"ValueError", "JSONDecodeError"}

-----------------------------------------------------------------------------
(* Status codes *)

\* a body of the listing shape: {records: [...], offset?: ...}
IsListing(response) ==
    /\ response.json.type = "dict"
    /\ "records" \in DOMAIN response.json.val
    /\ response.json.val.records.type = "list"

\* the same response with status 200
AsOk(response) == Response(response.json, 200)

\* what a get call holds after the pages ps: the records gathered and the
\* cursor, as functions of the bodies alone
Gathered(ps) == Flatten([j \in DOMAIN ps |-> PageRecords(AsOk(ps[j]))])
CursorAfter(ps) == dict_get(AsOk(ps[Len(ps)]).json, "offset")

\* C13: get does not look at status codes: a page of the listing shape adds
\* its records to the result and its offset to the loop whatever its
\* status, no such page makes get raise, and when get returns it returns
\* the records of all its pages, those with a non-2xx status included.
C13_StatusBlind ==
    (fn = "get" /\ \A j \in DOMAIN pages : IsListing(pages[j])) =>
        /\ get_data = Gathered(pages)
        /\ pages # <<>> => get_offset = CursorAfter(pages)
        /\ pc = "returned" => ret = Return(PyList(Gathered(pages)))
        /\ pc = "raised" => ret = Raise("TransportError")
        /\ pc \in {"fetch", "returned"} /\ pages # <<>> =>
            (pc = "returned") = (CursorAfter(pages) = PyNone)

\* a 404 page with records and an offset, then a last page: get returns the
\* records of both
C13_Witness ==
    /\ fn = "get"
    /\ pc = "returned"
    /\ Len(pages) = 2
    /\ pages[1].status = 404
    /\ HasOffset(pages[1])
    /\ PageRecords(pages[1]) = <<Rec1>>
    /\ PageRecords(pages[2]) = <<Rec2, Rec1>>
    /\ ret = Return(PyList(<<Rec1, Rec2, Rec1>>))

=============================================================================
